---- MODULE Spec2Model ----
(***************************************************************************)
(* Patient risk assessment (src/assessment.ts): the page fetcher with its  *)
(* exponential backoff, the risk scorer, the pagination loop with its      *)
(* retry pass, and the final submission.                                   *)
(*                                                                         *)
(* Encodings.  An optional value (undefined / null / NaN versus a value)   *)
(* is a sequence of length at most one: <<>> is the missing value, <<v>>   *)
(* is v.  A text field is what the parsers can see of a string: the        *)
(* number its longest numeric prefix denotes (num, <<>> when it has none)  *)
(* and whether other characters follow it (rest).  Temperatures are in     *)
(* hundredths of a degree, so 99.55 is 9955.                               *)
(*                                                                         *)
(* Beside the program's own variables the state holds the service's mode   *)
(* (svcMode: what it may still answer), per page the number of calls of    *)
(* fetchPatientsPage (fetchCount), how the main loop was ended (stoppedBy: *)
(* by hasNext = false or by the default), the total the main loop was last *)
(* told (reportedTotal: 0 included), the delays slept since the last read  *)
(* request (slept, in milliseconds), of the call in progress the           *)
(* requests issued, the waits slept, how it ended and the response that    *)
(* ended it (requests, waits, outcome, lastRes), and the horizon: the last *)
(* page number told apart from its successors.  Under Spec the service is  *)
(* unconstrained and the main loop is followed up to the horizon; under    *)
(* LiveSpec the service may settle and the loop is followed beyond the     *)
(* horizon, with page and failedPages no longer changing there.  Under     *)
(* ScoreSpec calculateRiskScore and its JavaScript variant                 *)
(* (src/unnamed/part_001) are applied to one record.                       *)
(***************************************************************************)
EXTENDS Integers, Sequences, FiniteSets, TLC

VARIABLES
    \* fetchAllPatients
    pc, page, hasNext, failedPages, expectedTotal, allPatients,
    highRiskPatientIds, feverPatientIds, dataQualityIssueIds, isFetching,
    retryIdx, result, warned, payload, submitOutcome,
    \* fetchPatientsPage (the call in progress)
    caller, callPage, retries, status, requests, waits, outcome, lastRes,
    \* the remote service and the observations of the run
    svcMode, fetchCount, stoppedBy, horizon, reportedTotal,
    \* the delays that have elapsed since the last read request
    slept,
    \* calculateRiskScore on its own
    patient, scored

vars == <<pc, page, hasNext, failedPages, expectedTotal, allPatients,
          highRiskPatientIds, feverPatientIds, dataQualityIssueIds, isFetching,
          retryIdx, result, warned, payload, submitOutcome, caller, callPage,
          retries, status, requests, waits, outcome, lastRes, svcMode,
          fetchCount, stoppedBy, horizon, reportedTotal, slept, patient, scored>>

(***************************************************************************)
(* Bounds of the model.                                                    *)
(***************************************************************************)
\* The last page number the model tells apart from the ones after it.
MaxPage == 2
\* Calls of fetchPatientsPage counted per page; more count as MaxCount.
MaxCount == 3

(***************************************************************************)
(* Text fields and the JavaScript parsers.                                 *)
(***************************************************************************)
NaN == <<>>

\* The float Infinity, as a number above every number the model compares it
\* with: what parseFloat makes of "Infinity" or "1e999".
Infinity == 1000000

Absent == [kind |-> "absent", num |-> <<>>, rest |-> FALSE]

Txt(n, r) == [kind |-> "string", num |-> n, rest |-> r]

\* patient?.field ?? '' : an absent field reads as the empty string
orEmpty(f) == IF f.kind = "absent" THEN Txt(<<>>, FALSE) ELSE f

\* parseInt / parseFloat: the numeric prefix, NaN when there is none;
\* whatever follows the prefix is dropped
parseNumber(s) == IF s.num = <<>> THEN NaN ELSE s.num

\* value === null || value === undefined || value === '' || isNaN(value),
\* of a value that is always the result of parseInt or parseFloat
isInvalidNumber(value) == value = NaN

(***************************************************************************)
(* calculateRiskScore.                                                     *)
(***************************************************************************)
\* The threshold chain of a readable blood-pressure pair, with the second
\* rule tried before the first.
bpRulesModerateFirst(systolic, diastolic) ==
    IF (systolic >= 130 /\ systolic <= 139) \/ (diastolic >= 80 /\ diastolic <= 89)
    THEN 2
    ELSE IF systolic >= 140 \/ diastolic >= 90 THEN 3
    ELSE IF systolic >= 120 /\ systolic <= 129 /\ diastolic < 80 THEN 1
    ELSE 0

\* The threshold chain of a readable blood-pressure pair.
bpRules(systolic, diastolic) ==
    IF systolic >= 140 \/ diastolic >= 90 THEN 3
    ELSE IF (systolic >= 130 /\ systolic <= 139) \/ (diastolic >= 80 /\ diastolic <= 89)
    THEN 2
    ELSE IF systolic >= 120 /\ systolic <= 129 /\ diastolic < 80 THEN 1
    ELSE IF systolic < 120 /\ diastolic < 80 THEN 0
    ELSE 0

\* The chain of the JavaScript variant with its last two rules exchanged.
bpRulesNormalThenSevere(systolic, diastolic) ==
    IF systolic < 120 /\ diastolic < 80 THEN 0
    ELSE IF systolic >= 120 /\ systolic <= 129 /\ diastolic < 80 THEN 1
    ELSE IF systolic >= 140 \/ diastolic >= 90 THEN 3
    ELSE IF (systolic >= 130 /\ systolic <= 139) \/ (diastolic >= 80 /\ diastolic <= 89)
    THEN 2
    ELSE 0

\* The threshold chain of the JavaScript variant: the normal rule first, the
\* severe rule last; a pair no rule takes keeps the initial 0.
bpRulesNormalFirst(systolic, diastolic) ==
    IF systolic < 120 /\ diastolic < 80 THEN 0
    ELSE IF systolic >= 120 /\ systolic <= 129 /\ diastolic < 80 THEN 1
    ELSE IF (systolic >= 130 /\ systolic <= 139) \/ (diastolic >= 80 /\ diastolic <= 89)
    THEN 2
    ELSE IF systolic >= 140 \/ diastolic >= 90 THEN 3
    ELSE 0

\* Blood pressure: bp is [kind, parts], parts what bp.split('/') yields, so
\* bp.includes('/') is Len(parts) >= 2; only the first two parts are read.
bpScore(bp) ==
    IF bp.kind = "string" /\ Len(bp.parts) >= 2
    THEN LET systolic  == parseNumber(bp.parts[1])
             diastolic == parseNumber(bp.parts[2])
         IN  IF isInvalidNumber(systolic) \/ isInvalidNumber(diastolic)
             THEN [score |-> 0, issue |-> TRUE]
             ELSE [score |-> bpRules(systolic[1], diastolic[1]), issue |-> FALSE]
    ELSE [score |-> 0, issue |-> TRUE]

\* The temperature chain with the fever flag of the middle band left out.
tempRulesNoFlag(temp) ==
    IF temp <= 9950 THEN [score |-> 0, isFever |-> FALSE]
    ELSE IF temp >= 9960 /\ temp <= 10090 THEN [score |-> 1, isFever |-> FALSE]
    ELSE IF temp >= 10100 THEN [score |-> 2, isFever |-> TRUE]
    ELSE [score |-> 0, isFever |-> FALSE]

\* The temperature chain, in hundredths of a degree; a value no branch takes
\* (between 99.5 and 99.6, between 100.9 and 101.0) keeps the initial 0 / false.
tempRules(temp) ==
    IF temp <= 9950 THEN [score |-> 0, isFever |-> FALSE]
    ELSE IF temp >= 9960 /\ temp <= 10090 THEN [score |-> 1, isFever |-> TRUE]
    ELSE IF temp >= 10100 THEN [score |-> 2, isFever |-> TRUE]
    ELSE [score |-> 0, isFever |-> FALSE]

tempScore(temperature) ==
    LET temp == parseNumber(orEmpty(temperature))
    IN  IF isInvalidNumber(temp)
        THEN [score |-> 0, isFever |-> FALSE, issue |-> TRUE]
        ELSE [score |-> tempRules(temp[1]).score,
              isFever |-> tempRules(temp[1]).isFever, issue |-> FALSE]

ageScore(ageField) ==
    LET age == parseNumber(orEmpty(ageField))
    IN  IF isInvalidNumber(age)
        THEN [score |-> 0, issue |-> TRUE]
        ELSE [score |-> IF age[1] < 40 THEN 0
                        ELSE IF age[1] >= 40 /\ age[1] <= 65 THEN 1
                        ELSE IF age[1] > 65 THEN 2
                        ELSE 0,
              issue |-> FALSE]

\* Blood pressure in the JavaScript variant: the same reading, its own chain.
bpScoreJs(bp) ==
    IF bp.kind = "string" /\ Len(bp.parts) >= 2
    THEN LET systolic  == parseNumber(bp.parts[1])
             diastolic == parseNumber(bp.parts[2])
         IN  IF isInvalidNumber(systolic) \/ isInvalidNumber(diastolic)
             THEN [score |-> 0, issue |-> TRUE]
             ELSE [score |-> bpRulesNormalFirst(systolic[1], diastolic[1]),
                   issue |-> FALSE]
    ELSE [score |-> 0, issue |-> TRUE]

\* calculateRiskScore of the JavaScript variant; temperature and age are
\* scored as in assessment.ts.
calculateRiskScoreJs(p) ==
    LET b == bpScoreJs(p.blood_pressure)
        t == tempScore(p.temperature)
        a == ageScore(p.age)
    IN  [score |-> b.score + t.score + a.score,
         isFever |-> t.isFever,
         hasDataQualityIssue |-> b.issue \/ t.issue \/ a.issue,
         bpScore |-> b.score, tempScore |-> t.score, ageScore |-> a.score]

\* The result with the age sub-score left out of the sum.
calculateRiskScoreDropsAge(p) ==
    LET b == bpScore(p.blood_pressure)
        t == tempScore(p.temperature)
        a == ageScore(p.age)
    IN  [score |-> b.score + t.score,
         isFever |-> t.isFever,
         hasDataQualityIssue |-> b.issue \/ t.issue \/ a.issue,
         bpScore |-> b.score, tempScore |-> t.score, ageScore |-> a.score]

\* The result, with the three sub-scores the function holds when it returns.
calculateRiskScore(p) ==
    LET b == bpScore(p.blood_pressure)
        t == tempScore(p.temperature)
        a == ageScore(p.age)
    IN  [score |-> b.score + t.score + a.score,
         isFever |-> t.isFever,
         hasDataQualityIssue |-> b.issue \/ t.issue \/ a.issue,
         bpScore |-> b.score, tempScore |-> t.score, ageScore |-> a.score]

(***************************************************************************)
(* Inputs of the scorer.                                                   *)
(***************************************************************************)
Num(n) == Txt(<<n>>, FALSE)

Bp(parts) == [kind |-> "string", parts |-> parts]

SystolicValues == {0, 119, 120, 129, 130, 139, 140, 180}

DiastolicValues == {60, 79, 80, 89, 90, 110}

ReadableBps == {Bp(<<Num(s), Num(d)>>) : s \in SystolicValues, d \in DiastolicValues}

\* absent, a number, "120", "abc/80", "120/", "120/80/90", "150mm/95", " / "
OtherBps ==
    { [kind |-> "absent", parts |-> <<>>],
      [kind |-> "nonstring", parts |-> <<>>],
      Bp(<<Num(120)>>),
      Bp(<<Txt(<<>>, TRUE), Num(80)>>),
      Bp(<<Num(120), Txt(<<>>, FALSE)>>),
      Bp(<<Num(120), Num(80), Num(90)>>),
      Bp(<<Txt(<<150>>, TRUE), Num(95)>>),
      Bp(<<Txt(<<>>, FALSE), Txt(<<>>, FALSE)>>) }

BpInputs == ReadableBps \cup OtherBps

\* absent, "", "abc", "98.6F", "Infinity", and readable temperatures around
\* each threshold
TemperatureInputs ==
    { Absent, Txt(<<>>, FALSE), Txt(<<>>, TRUE), Txt(<<9860>>, TRUE),
      Txt(<<Infinity>>, FALSE) }
    \cup { Num(t) : t \in {9800, 9950, 9955, 9960, 10000, 10090, 10095, 10100, 10150} }

\* absent, "", "abc", "70 years", and readable ages around each threshold
AgeInputs ==
    { Absent, Txt(<<>>, FALSE), Txt(<<>>, TRUE), Txt(<<70>>, TRUE) }
    \cup { Num(a) : a \in {0, 39, 40, 65, 66} }

PatientInputs ==
    [patient_id : {"p1"}, blood_pressure : BpInputs,
     temperature : TemperatureInputs, age : AgeInputs]

(***************************************************************************)
(* The remote service.                                                     *)
(***************************************************************************)
\* The attempt cap with one attempt too many.
maxRetriesPlusOne == 10 + 1

maxRetries == 10

baseDelay == 1000

\* The records the service serves: the first two share the id "p1".
\* "150/95", "101.5", "70": high risk and fever
PatientA == [patient_id |-> "p1", blood_pressure |-> Bp(<<Num(150), Num(95)>>),
             temperature |-> Num(10150), age |-> Num(70)]

\* "118/76", "100.0", "abc": fever and a data-quality issue
PatientB == [patient_id |-> "p1", blood_pressure |-> Bp(<<Num(118), Num(76)>>),
             temperature |-> Num(10000), age |-> Txt(<<>>, TRUE)]

\* no blood pressure, "98.6", "30": a data-quality issue
PatientC == [patient_id |-> "p2",
             blood_pressure |-> [kind |-> "absent", parts |-> <<>>],
             temperature |-> Num(9860), age |-> Num(30)]

\* "110/70", "98.6", "30": in no category
PatientD == [patient_id |-> "p3", blood_pressure |-> Bp(<<Num(110), Num(70)>>),
             temperature |-> Num(9860), age |-> Num(30)]

SamplePatients == { PatientA, PatientB, PatientC, PatientD }

\* What a response carries as data: nothing, no record, one record, or the
\* two records that share an id.
PageData ==
    { <<>>, << <<>> >>, << <<PatientA, PatientB>> >> }
    \cup { << <<p>> >> : p \in SamplePatients }

\* What a pagination object carries as total: nothing, 0, 1 or 3.
TotalValues == { <<>>, <<0>>, <<1>>, <<3>> }

\* null, or a pagination object: hasNext is "true", "false", "absent" or
\* "other" (present and not a boolean); total is optional
NoPagination == [nil |-> TRUE, hasNext |-> "absent", total |-> <<>>]

Paginations ==
    { NoPagination, [nil |-> FALSE, hasNext |-> "other", total |-> <<>>] }
    \cup [nil : {FALSE}, hasNext : {"true", "false", "absent"}, total : TotalValues]

\* A response body: data is optional, so is pagination (nil when missing).
Responses == [data : PageData, pagination : Paginations]

NoResponse == [data |-> <<>>, pagination |-> NoPagination]

\* error.response?.status of a failed request; <<>> when there is no response
FailStatuses == { <<>>, <<401>>, <<404>>, <<429>>, <<500>>, <<501>>, <<502>>,
                  <<503>>, <<504>> }

\* The service's behaviour from some point on: "any" is unconstrained; from
\* "quiet" on no response advertises hasNext = true; from "settled" on,
\* moreover, every request of the main loop succeeds with at least one record.
Modes == {"any", "quiet", "settled"}

Rank(m) == CASE m = "any" -> 0 [] m = "quiet" -> 1 [] m = "settled" -> 2

\* By the time a page beyond the horizon is requested the service has
\* stopped advertising further pages.
Served(p) == p > horizon => svcMode # "any"

MayRespond(m, who, res) ==
    /\ m # "any" => res.pagination.hasNext # "true"
    /\ (m = "settled" /\ who = "main") => (res.data # <<>> /\ res.data[1] # <<>>)

\* s is the status of the failure, n the failures of the call so far
MayFail(m, who, s, n, transient) ==
    (m = "settled" /\ who = "main") => (transient /\ n + 1 < maxRetries)

(***************************************************************************)
(* fetchPatientsPage.                                                      *)
(***************************************************************************)
EmptyResult == [patients |-> <<>>, pagination |-> NoPagination]

\* The extraction without the pagination object.
extractRecordsOnly(res) ==
    [patients |-> IF res.data = <<>> THEN <<>> ELSE res.data[1],
     pagination |-> NoPagination]

\* res.data?.data ?? [] and res.data?.pagination ?? null
extract(res) ==
    [patients |-> IF res.data = <<>> THEN <<>> ELSE res.data[1],
     pagination |-> res.pagination]

\* The retry test widened to every 5xx status.
isRetryableAny5xx(s) == s = <<429>> \/ (s # <<>> /\ s[1] >= 500 /\ s[1] <= 599)

\* [429, 500, 502, 503].includes(status)
isRetryable(s) == s \in { <<429>>, <<500>>, <<502>>, <<503>> }

\* A backoff that grows by baseDelay instead of doubling.
backoffLinear(n) == baseDelay * (n + 1)

\* const delay = baseDelay * 2 ** retries
backoff(n) == baseDelay * 2 ^ n

\* The call returns to whoever made it.
returnTo(who) == IF who = "main" THEN "mainGot" ELSE "retryGot"

\* let retries = 0, and the call's other locals
invoke(who, p) ==
    /\ pc' = "fetch"
    /\ caller' = who
    /\ callPage' = p
    /\ retries' = 0
    /\ status' = <<>>
    /\ requests' = 0
    /\ waits' = <<>>
    /\ outcome' = "none"
    /\ lastRes' = NoResponse
    /\ fetchCount' = IF p > horizon THEN fetchCount
                     ELSE [fetchCount EXCEPT ![p] = IF @ < MaxCount THEN @ + 1 ELSE @]

\* What fetchPatientsPage cannot touch: its caller's locals, and the scorer.
frameVars == <<page, hasNext, failedPages, expectedTotal, allPatients,
               highRiskPatientIds, feverPatientIds, dataQualityIssueIds,
               isFetching, retryIdx, warned, payload, submitOutcome,
               fetchCount, stoppedBy, horizon, reportedTotal, caller, callPage, patient,
               scored>>

\* The service settles: it never goes back on what it has settled on.
ServiceSettles ==
    /\ \E m2 \in Modes : Rank(m2) > Rank(svcMode) /\ svcMode' = m2
    /\ UNCHANGED <<frameVars, pc, retries, status, requests, waits, outcome,
                   lastRes, result, slept>>

\* axios.get resolves: the call returns what the response carries.
RequestSucceeds ==
    /\ pc = "fetch"
    /\ retries < maxRetries
    /\ Served(callPage)
    /\ \E res \in Responses :
          /\ MayRespond(svcMode, caller, res)
          /\ lastRes' = res
          /\ result' = extract(res)
    /\ requests' = requests + 1
    /\ slept' = <<>>
    /\ status' = <<>>
    /\ outcome' = "success"
    /\ pc' = returnTo(caller)
    /\ UNCHANGED <<frameVars, retries, waits, svcMode>>

\* The failure handling with the sleep moved in front of the retry test.
RequestFailsAlwaysWaits ==
    /\ pc = "fetch"
    /\ retries < maxRetries
    /\ Served(callPage)
    /\ \E s \in FailStatuses :
          /\ MayFail(svcMode, caller, s, retries, isRetryable(s))
          /\ status' = s
          /\ IF isRetryable(s)
             THEN /\ waits' = Append(waits, backoff(retries))
                  /\ slept' = <<backoff(retries)>>
                  /\ retries' = retries + 1
                  /\ UNCHANGED <<pc, outcome, result>>
             ELSE /\ outcome' = "terminal"
                  /\ result' = EmptyResult
                  /\ pc' = returnTo(caller)
                  /\ waits' = Append(waits, backoff(retries))
                  /\ slept' = <<backoff(retries)>>
                  /\ UNCHANGED retries
    /\ requests' = requests + 1
    /\ UNCHANGED <<frameVars, lastRes, svcMode>>

\* The failure handling with the backoff sleep left out: a retryable status
\* counts and the loop goes straight to the next request.
RequestFailsNoSleep ==
    /\ pc = "fetch"
    /\ retries < maxRetries
    /\ Served(callPage)
    /\ \E s \in FailStatuses :
          /\ MayFail(svcMode, caller, s, retries, isRetryable(s))
          /\ status' = s
          /\ IF isRetryable(s)
             THEN /\ retries' = retries + 1
                  /\ slept' = <<>>
                  /\ UNCHANGED <<pc, outcome, result, waits>>
             ELSE /\ outcome' = "terminal"
                  /\ result' = EmptyResult
                  /\ pc' = returnTo(caller)
                  /\ slept' = <<>>
                  /\ UNCHANGED <<retries, waits>>
    /\ requests' = requests + 1
    /\ UNCHANGED <<frameVars, lastRes, svcMode>>

\* axios.get rejects: a retryable status sleeps and counts, any other
\* outcome breaks out of the loop and returns the empty result.
RequestFails ==
    /\ pc = "fetch"
    /\ retries < maxRetries
    /\ Served(callPage)
    /\ \E s \in FailStatuses :
          /\ MayFail(svcMode, caller, s, retries, isRetryable(s))
          /\ status' = s
          /\ IF isRetryable(s)
             THEN /\ waits' = Append(waits, backoff(retries))
                  /\ slept' = <<backoff(retries)>>
                  /\ retries' = retries + 1
                  /\ UNCHANGED <<pc, outcome, result>>
             ELSE /\ outcome' = "terminal"
                  /\ result' = EmptyResult
                  /\ pc' = returnTo(caller)
                  /\ slept' = <<>>
                  /\ UNCHANGED <<retries, waits>>
    /\ requests' = requests + 1
    /\ UNCHANGED <<frameVars, lastRes, svcMode>>

\* The while condition fails: every attempt was used up.
GiveUp ==
    /\ pc = "fetch"
    /\ ~(retries < maxRetries)
    /\ outcome' = "exhausted"
    /\ result' = EmptyResult
    /\ pc' = returnTo(caller)
    /\ UNCHANGED <<frameVars, retries, status, requests, waits, lastRes, svcMode,
                   slept>>

(***************************************************************************)
(* fetchAllPatients.                                                       *)
(***************************************************************************)
\* The three tests as one else-if chain: a record goes to one list at most.
routedFirstMatch(list, p) ==
    LET r == calculateRiskScore(p)
    IN  CASE list = "highRisk" -> r.score >= 4
          [] list = "fever" -> r.score < 4 /\ r.isFever
          [] list = "dataQuality" -> r.score < 4 /\ ~r.isFever /\ r.hasDataQualityIssue

\* if (score >= 4) ..., if (isFever) ..., if (hasDataQualityIssue) ...
routed(list, p) ==
    CASE list = "highRisk" -> calculateRiskScore(p).score >= 4
      [] list = "fever" -> calculateRiskScore(p).isFever
      [] list = "dataQuality" -> calculateRiskScore(p).hasDataQualityIssue

\* The ids pushed to one list, in order, for the records of one page.
pushed(ids, ps, list) ==
    LET sel == SelectSeq(ps, LAMBDA p : routed(list, p))
    IN  ids \o [i \in 1..Len(sel) |-> sel[i].patient_id]

\* The total the main loop was last told: that of the pagination object if
\* it carries one, whatever its value.
reported(total, pagination) ==
    IF ~pagination.nil /\ pagination.total # <<>> THEN pagination.total ELSE total

\* if (pagination?.total) expectedTotal = pagination.total
remembered(total, pagination) ==
    IF ~pagination.nil /\ pagination.total # <<>> /\ pagination.total[1] # 0
    THEN pagination.total
    ELSE total

\* The flag with the default turned round: go on unless told to stop.
nextFlagDefaultsTrue(pagination) ==
    IF ~pagination.nil /\ pagination.hasNext \in {"true", "false"}
    THEN pagination.hasNext = "true"
    ELSE TRUE

\* pagination && typeof pagination.hasNext === 'boolean' ? pagination.hasNext : false
nextFlag(pagination) ==
    IF ~pagination.nil /\ pagination.hasNext \in {"true", "false"}
    THEN pagination.hasNext = "true"
    ELSE FALSE

\* The page counter left where it is.
advanceNot(p) == p

\* page++ ; page numbers beyond the horizon are not told apart
advance(p) == IF p > horizon THEN p ELSE p + 1

\* The list handed over as it was collected.
dedupNothing(list) == list

\* [...new Set(list)]: each id once, in the order of its first insertion
RECURSIVE dedup(_)
dedup(list) ==
    IF list = <<>> THEN <<>>
    ELSE LET front == dedup(SubSeq(list, 1, Len(list) - 1))
             last  == list[Len(list)]
         IN  IF \E i \in 1..Len(front) : front[i] = last
             THEN front
             ELSE Append(front, last)

\* The locals of a finished call go out of scope.
release ==
    /\ retries' = 0
    /\ status' = <<>>
    /\ requests' = 0
    /\ waits' = <<>>
    /\ outcome' = "none"
    /\ lastRes' = NoResponse
    /\ result' = EmptyResult

callVars == <<caller, callPage, retries, status, requests, waits, outcome,
              lastRes, result>>

NoPayload == [high_risk_patients |-> <<>>, fever_patients |-> <<>>,
              data_quality_issues |-> <<>>]

\* fetchAllPatients() is called: isFetching = true
Start ==
    /\ pc = "start"
    /\ pc' = "main"
    /\ isFetching' = TRUE
    /\ UNCHANGED <<page, hasNext, failedPages, expectedTotal, allPatients,
                   highRiskPatientIds, feverPatientIds, dataQualityIssueIds,
                   retryIdx, warned, payload, submitOutcome, callVars, svcMode,
                   fetchCount, stoppedBy, horizon, reportedTotal, slept, patient, scored>>

\* while (hasNext): sleep(300), then fetchPatientsPage(page, limit)
LoopEnter ==
    /\ pc = "main"
    /\ hasNext
    /\ slept' = Append(slept, 300)
    /\ invoke("main", page)
    /\ UNCHANGED <<page, hasNext, failedPages, expectedTotal, allPatients,
                   highRiskPatientIds, feverPatientIds, dataQualityIssueIds,
                   isFetching, retryIdx, warned, payload, submitOutcome, result,
                   svcMode, stoppedBy, horizon, reportedTotal, patient, scored>>

\* The main loop while the page number is one the model tracks.
LoopEnterTracked == page <= horizon /\ LoopEnter

\* The empty page queued with the page counter left where it is.
MainEmptyStays ==
    /\ pc = "mainGot"
    /\ result.patients = <<>>
    /\ expectedTotal' = remembered(expectedTotal, result.pagination)
    /\ reportedTotal' = reported(reportedTotal, result.pagination)
    /\ failedPages' = IF page > horizon THEN failedPages
                      ELSE Append(failedPages, page)
    /\ page' = page
    /\ pc' = "main"
    /\ release
    /\ UNCHANGED <<hasNext, allPatients, highRiskPatientIds, feverPatientIds,
                   dataQualityIssueIds, isFetching, retryIdx, warned, payload,
                   submitOutcome, caller, callPage, svcMode, fetchCount,
                   stoppedBy, horizon, slept, patient, scored>>

\* The empty page skipped without being queued for the retry pass.
MainEmptyNotQueued ==
    /\ pc = "mainGot"
    /\ result.patients = <<>>
    /\ expectedTotal' = remembered(expectedTotal, result.pagination)
    /\ reportedTotal' = reported(reportedTotal, result.pagination)
    /\ failedPages' = failedPages
    /\ page' = advance(page)
    /\ pc' = "main"
    /\ release
    /\ UNCHANGED <<hasNext, allPatients, highRiskPatientIds, feverPatientIds,
                   dataQualityIssueIds, isFetching, retryIdx, warned, payload,
                   submitOutcome, caller, callPage, svcMode, fetchCount,
                   stoppedBy, horizon, slept, patient, scored>>

\* The page came back with no records: queue it, go on, hasNext untouched.
MainEmpty ==
    /\ pc = "mainGot"
    /\ result.patients = <<>>
    /\ expectedTotal' = remembered(expectedTotal, result.pagination)
    /\ reportedTotal' = reported(reportedTotal, result.pagination)
    /\ failedPages' = IF page > horizon THEN failedPages
                      ELSE Append(failedPages, page)
    /\ page' = advance(page)
    /\ pc' = "main"
    /\ release
    /\ UNCHANGED <<hasNext, allPatients, highRiskPatientIds, feverPatientIds,
                   dataQualityIssueIds, isFetching, retryIdx, warned, payload,
                   submitOutcome, caller, callPage, svcMode, fetchCount,
                   stoppedBy, horizon, slept, patient, scored>>

\* The page came back with records: score, route, append, take hasNext from
\* the pagination object, page++, sleep(200).
MainFold ==
    /\ pc = "mainGot"
    /\ result.patients # <<>>
    /\ expectedTotal' = remembered(expectedTotal, result.pagination)
    /\ reportedTotal' = reported(reportedTotal, result.pagination)
    /\ highRiskPatientIds' = pushed(highRiskPatientIds, result.patients, "highRisk")
    /\ feverPatientIds' = pushed(feverPatientIds, result.patients, "fever")
    /\ dataQualityIssueIds' = pushed(dataQualityIssueIds, result.patients, "dataQuality")
    /\ allPatients' = allPatients \o result.patients
    /\ hasNext' = nextFlag(result.pagination)
    /\ page' = advance(page)
    /\ stoppedBy' = IF hasNext' THEN "none"
                    ELSE IF ~result.pagination.nil /\ result.pagination.hasNext = "false"
                    THEN "flag"
                    ELSE "default"
    /\ slept' = Append(slept, 200)
    /\ pc' = "main"
    /\ release
    /\ UNCHANGED <<failedPages, isFetching, retryIdx, warned, payload,
                   submitOutcome, caller, callPage, svcMode, fetchCount,
                   horizon, patient, scored>>

\* hasNext is false: the loop ends and the retry pass starts.
LoopExit ==
    /\ pc = "main"
    /\ ~hasNext
    /\ pc' = "retry"
    /\ retryIdx' = 1
    /\ UNCHANGED <<page, hasNext, failedPages, expectedTotal, allPatients,
                   highRiskPatientIds, feverPatientIds, dataQualityIssueIds,
                   isFetching, warned, payload, submitOutcome, callVars,
                   svcMode, fetchCount, stoppedBy, horizon, reportedTotal, slept, patient, scored>>

\* for (const failedPage of failedPages): sleep(500), then fetch it again
RetryEnter ==
    /\ pc = "retry"
    /\ retryIdx <= Len(failedPages)
    /\ slept' = Append(slept, 500)
    /\ invoke("retry", failedPages[retryIdx])
    /\ UNCHANGED <<page, hasNext, failedPages, expectedTotal, allPatients,
                   highRiskPatientIds, feverPatientIds, dataQualityIssueIds,
                   isFetching, retryIdx, warned, payload, submitOutcome, result,
                   svcMode, stoppedBy, horizon, reportedTotal, patient, scored>>

\* The fold of the retry pass reading the pagination object as the main
\* loop does.
RetryFoldReadsPagination ==
    /\ pc = "retryGot"
    /\ result.patients # <<>>
    /\ expectedTotal' = remembered(expectedTotal, result.pagination)
    /\ hasNext' = nextFlag(result.pagination)
    /\ highRiskPatientIds' = pushed(highRiskPatientIds, result.patients, "highRisk")
    /\ feverPatientIds' = pushed(feverPatientIds, result.patients, "fever")
    /\ dataQualityIssueIds' = pushed(dataQualityIssueIds, result.patients, "dataQuality")
    /\ allPatients' = allPatients \o result.patients
    /\ retryIdx' = retryIdx + 1
    /\ pc' = "retry"
    /\ release
    /\ UNCHANGED <<page, failedPages, isFetching, warned, payload,
                   submitOutcome, caller, callPage, svcMode, fetchCount,
                   stoppedBy, horizon, reportedTotal, slept, patient, scored>>

\* The retried page has records now: fold them in; its pagination is not read.
RetryFold ==
    /\ pc = "retryGot"
    /\ result.patients # <<>>
    /\ highRiskPatientIds' = pushed(highRiskPatientIds, result.patients, "highRisk")
    /\ feverPatientIds' = pushed(feverPatientIds, result.patients, "fever")
    /\ dataQualityIssueIds' = pushed(dataQualityIssueIds, result.patients, "dataQuality")
    /\ allPatients' = allPatients \o result.patients
    /\ retryIdx' = retryIdx + 1
    /\ pc' = "retry"
    /\ release
    /\ UNCHANGED <<page, hasNext, failedPages, expectedTotal, isFetching,
                   warned, payload, submitOutcome, caller, callPage, svcMode,
                   fetchCount, stoppedBy, horizon, reportedTotal, slept, patient, scored>>

\* The still-empty page left in place, to be fetched again.
RetryEmptyAgain ==
    /\ pc = "retryGot"
    /\ result.patients = <<>>
    /\ retryIdx' = retryIdx
    /\ pc' = "retry"
    /\ release
    /\ UNCHANGED <<page, hasNext, failedPages, expectedTotal, allPatients,
                   highRiskPatientIds, feverPatientIds, dataQualityIssueIds,
                   isFetching, warned, payload, submitOutcome, caller, callPage,
                   svcMode, fetchCount, stoppedBy, horizon, reportedTotal, slept, patient, scored>>

\* Still empty: "Final failure on page ..., skipping".
RetryEmpty ==
    /\ pc = "retryGot"
    /\ result.patients = <<>>
    /\ retryIdx' = retryIdx + 1
    /\ pc' = "retry"
    /\ release
    /\ UNCHANGED <<page, hasNext, failedPages, expectedTotal, allPatients,
                   highRiskPatientIds, feverPatientIds, dataQualityIssueIds,
                   isFetching, warned, payload, submitOutcome, caller, callPage,
                   svcMode, fetchCount, stoppedBy, horizon, reportedTotal, slept, patient, scored>>

\* The retry pass is over: the shortfall warning, isFetching = false, and the
\* call of submitAssessment with the three lists deduplicated.
Finish ==
    /\ pc = "retry"
    /\ retryIdx > Len(failedPages)
    /\ warned' = (expectedTotal # <<>> /\ Len(allPatients) < expectedTotal[1])
    /\ isFetching' = FALSE
    /\ payload' = [high_risk_patients |-> dedup(highRiskPatientIds),
                   fever_patients |-> dedup(feverPatientIds),
                   data_quality_issues |-> dedup(dataQualityIssueIds)]
    /\ pc' = "submit"
    /\ UNCHANGED <<page, hasNext, failedPages, expectedTotal, allPatients,
                   highRiskPatientIds, feverPatientIds, dataQualityIssueIds,
                   retryIdx, submitOutcome, callVars, svcMode, fetchCount,
                   stoppedBy, horizon, reportedTotal, slept, patient, scored>>

\* The submission posted again after a rejection.
SubmitAgainOnFailure ==
    /\ pc = "submit"
    /\ \E ok \in BOOLEAN :
          /\ submitOutcome' = IF ok THEN "ok" ELSE "failed"
          /\ pc' = IF ok THEN "done" ELSE "submit"
    /\ UNCHANGED <<page, hasNext, failedPages, expectedTotal, allPatients,
                   highRiskPatientIds, feverPatientIds, dataQualityIssueIds,
                   isFetching, retryIdx, warned, payload, callVars, svcMode,
                   fetchCount, stoppedBy, horizon, reportedTotal, slept, patient, scored>>

\* submitAssessment: one axios.post; a rejection is caught and logged.
Submit ==
    /\ pc = "submit"
    /\ \E ok \in BOOLEAN : submitOutcome' = IF ok THEN "ok" ELSE "failed"
    /\ pc' = "done"
    /\ UNCHANGED <<page, hasNext, failedPages, expectedTotal, allPatients,
                   highRiskPatientIds, feverPatientIds, dataQualityIssueIds,
                   isFetching, retryIdx, warned, payload, callVars, svcMode,
                   fetchCount, stoppedBy, horizon, reportedTotal, slept, patient, scored>>

(***************************************************************************)
(* Specifications.                                                         *)
(***************************************************************************)
OrchInit ==
    /\ pc = "start"
    /\ page = 1
    /\ hasNext = TRUE
    /\ failedPages = <<>>
    /\ expectedTotal = <<>>
    /\ allPatients = <<>>
    /\ highRiskPatientIds = <<>>
    /\ feverPatientIds = <<>>
    /\ dataQualityIssueIds = <<>>
    /\ isFetching = FALSE
    /\ retryIdx = 1
    /\ result = EmptyResult
    /\ warned = FALSE
    /\ payload = NoPayload
    /\ submitOutcome = "none"
    /\ caller = "main"
    /\ callPage = 1
    /\ retries = 0
    /\ status = <<>>
    /\ requests = 0
    /\ waits = <<>>
    /\ outcome = "none"
    /\ lastRes = NoResponse
    /\ fetchCount = [p \in 1..MaxPage |-> 0]
    /\ stoppedBy = "none"
    /\ reportedTotal = <<>>
    /\ slept = <<>>

Init ==
    /\ OrchInit
    /\ svcMode = "any"
    /\ horizon = MaxPage
    /\ patient = PatientC
    /\ scored = <<>>

Next ==
    \/ Start
    \/ LoopEnterTracked
    \/ RequestSucceeds
    \/ RequestFails
    \/ GiveUp
    \/ MainEmpty
    \/ MainFold
    \/ LoopExit
    \/ RetryEnter
    \/ RetryFold
    \/ RetryEmpty
    \/ Finish
    \/ Submit

\* The run of the program against any service, followed up to page MaxPage.
Spec == Init /\ [][Next]_vars

\* The same run with the main loop followed beyond the horizon too, against
\* a service that may settle.  One thread of control, and every await (a
\* timer, a request) completes: a step that can be taken is taken.
NextLive ==
    \/ ServiceSettles
    \/ Start
    \/ LoopEnter
    \/ RequestSucceeds
    \/ RequestFails
    \/ GiveUp
    \/ MainEmpty
    \/ MainFold
    \/ LoopExit
    \/ RetryEnter
    \/ RetryFold
    \/ RetryEmpty
    \/ Finish
    \/ Submit

\* The main loop is told apart page by page up to MaxPage - 1 here.
LiveInit ==
    /\ OrchInit
    /\ svcMode \in Modes
    /\ horizon = MaxPage - 1
    /\ patient = PatientC
    /\ scored = <<>>

LiveSpec == LiveInit /\ [][NextLive]_vars /\ WF_vars(NextLive)

\* calculateRiskScore applied to one record drawn from PatientInputs, and
\* beside it the JavaScript variant applied to the same record.
Score ==
    /\ scored = <<>>
    /\ scored' = <<calculateRiskScore(patient), calculateRiskScoreJs(patient)>>
    /\ UNCHANGED <<pc, page, hasNext, failedPages, expectedTotal, allPatients,
                   highRiskPatientIds, feverPatientIds, dataQualityIssueIds,
                   isFetching, retryIdx, warned, payload, submitOutcome,
                   callVars, svcMode, fetchCount, stoppedBy, horizon, reportedTotal, slept, patient>>

ScoreInit ==
    /\ OrchInit
    /\ horizon = MaxPage
    /\ svcMode = "any"
    /\ patient \in PatientInputs
    /\ scored = <<>>

ScoreNext == Score

ScoreSpec == ScoreInit /\ [][ScoreNext]_vars

(***************************************************************************)
(* C1.  Termination of fetchAllPatients.                                   *)
(***************************************************************************)
\* C1, as stated: once the service has stopped advertising hasNext = true
\* (responses without records, without pagination, and failed fetches
\* included), the main loop exits, the retry pass completes and the
\* assessment is submitted.
C1_TerminatesOnceQuiet == (svcMode # "any") ~> (pc = "done")

\* C1, amended: once the service has stopped advertising hasNext = true and
\* every page fetch of the main loop yields at least one record, the main
\* loop exits, the retry pass completes and the assessment is submitted.
C1_TerminatesOnceSettled == (svcMode = "settled") ~> (pc = "done")

\* A settled service, a run that queued a page, retried it and submitted.
C1_Witness ==
    /\ svcMode = "settled"
    /\ pc = "done"
    /\ failedPages # <<>>
    /\ allPatients # <<>>

(***************************************************************************)
(* C2.  An empty page is queued and fetched once more.                     *)
(***************************************************************************)
\* C2: in the main loop a page without records leaves hasNext as it is,
\* advances page by one and appends the page number to failedPages; no page
\* is fetched a second time before the main loop has ended, none is ever
\* fetched a third time, and once the retry pass is over every queued page
\* has been fetched exactly twice.
C2_EmptyPageRetriedOnce ==
    /\ [][(pc = "mainGot" /\ result.patients = <<>>)
            => /\ hasNext' = hasNext
               /\ page' = page + 1
               /\ failedPages' = Append(failedPages, page)]_vars
    /\ [](\A p \in 1..MaxPage :
            /\ fetchCount[p] <= 2
            /\ pc \in {"start", "main", "mainGot"} => fetchCount[p] <= 1
            /\ caller = "main" => fetchCount[p] <= 1)
    /\ [](pc \in {"submit", "done"}
            => \A i \in 1..Len(failedPages) : fetchCount[failedPages[i]] = 2)

\* A finished run in which the first page was queued and fetched twice, and
\* the second page was fetched once.
C2_Witness ==
    /\ pc = "done"
    /\ failedPages = <<1>>
    /\ fetchCount[1] = 2
    /\ fetchCount[2] = 1
    /\ allPatients # <<>>

(***************************************************************************)
(* C3.  A page without a boolean hasNext.                                  *)
(***************************************************************************)
\* The response carried no boolean hasNext (or no pagination object).
Unflagged(pagination) == pagination.nil \/ pagination.hasNext \in {"absent", "other"}

\* Once hasNext is false it stays false and the main loop fetches no page.
NoFurtherMainPage ==
    [][~hasNext => (~hasNext' /\ ~(pc = "main" /\ pc' = "fetch"))]_vars

\* C3, as stated: after a response without a boolean hasNext, whether or
\* not it carried records, pagination is finished: hasNext is false from
\* then on and the main loop requests no further page.
C3_UnflaggedPageEndsLoop ==
    /\ [][(pc = "mainGot" /\ outcome = "success" /\ Unflagged(result.pagination))
            => hasNext' = FALSE]_vars
    /\ NoFurtherMainPage

\* C3, amended: after a response that carried at least one record and no
\* boolean hasNext, pagination is finished: hasNext is false from then on
\* and the main loop requests no further page.
C3_UnflaggedPageWithRecordsEndsLoop ==
    /\ [][(pc = "mainGot" /\ result.patients # <<>> /\ Unflagged(result.pagination))
            => (hasNext' = FALSE /\ pc' = "main")]_vars
    /\ NoFurtherMainPage

\* The main loop has ended on the default, after the first page.
C3_Witness ==
    /\ pc = "retry"
    /\ stoppedBy = "default"
    /\ ~hasNext
    /\ page = 2
    /\ allPatients # <<>>

(***************************************************************************)
(* C4 - C8.  fetchPatientsPage.                                            *)
(***************************************************************************)
Returned == pc \in {"mainGot", "retryGot"}

\* C4: a call that succeeds after k transient failures, k below the cap,
\* returns the records and the pagination of that response, and has issued
\* k + 1 requests.
C4_SuccessAfterRetries ==
    (Returned /\ outcome = "success")
        => /\ retries < 10
           /\ requests = retries + 1
           /\ result.patients = (IF lastRes.data = <<>> THEN <<>> ELSE lastRes.data[1])
           /\ result.pagination = lastRes.pagination

\* Five transient failures, then a page with a record and a pagination object.
C4_Witness ==
    /\ Returned
    /\ outcome = "success"
    /\ retries = 5
    /\ requests = 6
    /\ result.patients # <<>>
    /\ ~result.pagination.nil

\* One request fails in this step.
AttemptFails == pc = "fetch" /\ requests' = requests + 1 /\ outcome' # "success"

\* C5: a failure whose status is none of 429, 500, 502, 503 (no status
\* included) ends the call in that step: the empty result, no wait, no
\* further request, however many transient failures came before.
C5_TerminalFailureEndsCall ==
    /\ [][(AttemptFails /\ status' \notin {<<429>>, <<500>>, <<502>>, <<503>>})
            => /\ pc' = returnTo(caller)
               /\ outcome' = "terminal"
               /\ result' = EmptyResult
               /\ waits' = waits
               /\ retries' = retries]_vars
    /\ []((Returned /\ outcome = "terminal")
            => (requests = retries + 1 /\ Len(waits) = retries /\ result = EmptyResult))
    /\ [][(Returned /\ Returned') => requests' = requests]_vars

\* Three transient failures, then a failure without a status.
C5_Witness ==
    /\ Returned
    /\ outcome = "terminal"
    /\ status = <<>>
    /\ retries = 3
    /\ requests = 4

\* C6: a call issues at most 10 requests; one whose attempts all fail with
\* a transient status issues exactly 10 and returns the empty result.
C6_ExhaustionReturnsEmpty ==
    /\ requests <= 10
    /\ retries <= 10
    /\ outcome = "exhausted"
         => (Returned /\ requests = 10 /\ retries = 10 /\ result = EmptyResult)
    /\ (pc = "fetch" /\ retries = 10) => requests = 10

\* The call that gave up after its tenth transient failure.
C6_Witness ==
    /\ Returned
    /\ outcome = "exhausted"
    /\ requests = 10
    /\ Len(waits) = 10

\* C7: the wait after the transient failure of attempt a (from 0) is
\* 1000 * 2^a; the counter changes only by one, on a transient failure, or
\* back to 0, and is 0 when a call starts.
C7_BackoffDoubles ==
    /\ [](/\ Len(waits) = retries
          /\ \A i \in 1..Len(waits) : waits[i] = 1000 * 2 ^ (i - 1)
          /\ \A i \in 1..(Len(waits) - 1) : waits[i + 1] = 2 * waits[i])
    /\ [][retries' # retries
            => \/ /\ retries' = retries + 1
                  /\ AttemptFails
                  /\ status' \in {<<429>>, <<500>>, <<502>>, <<503>>}
               \/ retries' = 0]_vars
    /\ [][(pc # "fetch" /\ pc' = "fetch") => (retries' = 0 /\ waits' = <<>>)]_vars

\* Four transient failures in one call.
C7_Witness ==
    /\ pc = "fetch"
    /\ retries = 4
    /\ waits = <<1000, 2000, 4000, 8000>>

\* The rate-limit status and the server-side statuses the service sends.
ServerSideSignals == {<<429>>, <<500>>, <<501>>, <<502>>, <<503>>, <<504>>}

RuleOne(s, d) == s >= 140 \/ d >= 90

RuleTwo(s, d) == s \in 130..139 \/ d \in 80..89

RuleThree(s, d) == s \in 120..129 /\ d < 80

\* C9: the blood-pressure sub-score of a readable pair is that of the first
\* rule, in the order 1, 2, 3, that the pair matches, and 0 when none does.
C9_BpFirstMatchWins ==
    (scored # <<>> /\ patient.blood_pressure \in ReadableBps)
        => LET s == patient.blood_pressure.parts[1].num[1]
               d == patient.blood_pressure.parts[2].num[1]
           IN  /\ RuleOne(s, d) => scored[1].bpScore = 3
               /\ (~RuleOne(s, d) /\ RuleTwo(s, d)) => scored[1].bpScore = 2
               /\ (~RuleOne(s, d) /\ ~RuleTwo(s, d) /\ RuleThree(s, d))
                    => scored[1].bpScore = 1
               /\ (~RuleOne(s, d) /\ ~RuleTwo(s, d) /\ ~RuleThree(s, d))
                    => scored[1].bpScore = 0

\* "180/85" matches rule 1 and rule 2, and scores 3.
C9_Witness ==
    /\ scored # <<>>
    /\ patient.blood_pressure = Bp(<<Num(180), Num(89)>>)
    /\ scored[1].bpScore = 3

\* C10: a readable temperature of at most 99.5 scores 0 without fever, one
\* in 99.6 .. 100.9 scores 1 with fever, one of at least 101.0 scores 2
\* with fever; the fever flag is set exactly when the temperature sub-score
\* is at least 1, whatever the other two fields are.
C10_TemperatureBands ==
    scored # <<>>
        => /\ (scored[1].isFever <=> scored[1].tempScore >= 1)
           /\ (patient.temperature.kind = "string" /\ patient.temperature.num # <<>>)
                => LET t == patient.temperature.num[1]
                   IN  /\ t <= 9950 => (scored[1].tempScore = 0 /\ ~scored[1].isFever)
                       /\ (t >= 9960 /\ t <= 10090)
                            => (scored[1].tempScore = 1 /\ scored[1].isFever)
                       /\ t >= 10100 => (scored[1].tempScore = 2 /\ scored[1].isFever)

\* A fever on a record whose blood pressure and age are both unreadable.
C10_Witness ==
    /\ scored # <<>>
    /\ patient.temperature = Num(10090)
    /\ patient.blood_pressure.kind = "absent"
    /\ patient.age = Txt(<<>>, TRUE)
    /\ scored[1].isFever
    /\ scored[1].tempScore = 1
    /\ scored[1].hasDataQualityIssue

(***************************************************************************)
(* C11 - C13.  calculateRiskScore as a whole.                              *)
(***************************************************************************)
\* The field is absent, empty, or its text does not start with a finite number.
Unreadable(field) ==
    field.kind = "absent" \/ field.num = <<>> \/ field.num[1] = Infinity

\* No string, no '/', or a side that is unreadable.
BpUnreadable(bp) ==
    \/ bp.kind # "string"
    \/ Len(bp.parts) < 2
    \/ Unreadable(bp.parts[1])
    \/ Unreadable(bp.parts[2])

\* The record with every field readable that the sub-scores are compared with.
Reference == PatientA

\* C11: hasDataQualityIssue is true exactly when the blood pressure, the
\* temperature or the age is absent, empty or not parseable as a finite
\* number; such a field has sub-score 0 (and raises no fever), and every
\* other field has the sub-score it has in a record whose fields are all
\* readable.
C11_IssueIffUnreadableField ==
    scored # <<>>
        => LET r == scored[1]
           IN  /\ r.hasDataQualityIssue
                    <=> \/ BpUnreadable(patient.blood_pressure)
                        \/ Unreadable(patient.temperature)
                        \/ Unreadable(patient.age)
               /\ BpUnreadable(patient.blood_pressure) => r.bpScore = 0
               /\ Unreadable(patient.temperature) => (r.tempScore = 0 /\ ~r.isFever)
               /\ Unreadable(patient.age) => r.ageScore = 0
               /\ r.bpScore = calculateRiskScore(
                      [Reference EXCEPT !.blood_pressure = patient.blood_pressure]).bpScore
               /\ r.tempScore = calculateRiskScore(
                      [Reference EXCEPT !.temperature = patient.temperature]).tempScore
               /\ r.ageScore = calculateRiskScore(
                      [Reference EXCEPT !.age = patient.age]).ageScore

\* C12: every record, whatever is absent, empty or malformed in it, gets a
\* result; its score is the sum of the blood-pressure sub-score (0..3), the
\* temperature sub-score (0..2) and the age sub-score (0..2), an integer in
\* 0..7.
C12_ScoreIsSumInRange ==
    /\ scored = <<>> => ENABLED Score
    /\ scored # <<>>
         => LET r == scored[1]
            IN  /\ r.score = r.bpScore + r.tempScore + r.ageScore
                /\ r.bpScore \in 0..3
                /\ r.tempScore \in 0..2
                /\ r.ageScore \in 0..2
                /\ r.score \in 0..7
                /\ r.isFever \in BOOLEAN
                /\ r.hasDataQualityIssue \in BOOLEAN

\* No blood pressure, "101.5" and "70 years": 0 + 2 + 2.
C12_Witness ==
    /\ scored # <<>>
    /\ patient.blood_pressure.kind = "absent"
    /\ patient.temperature = Num(10150)
    /\ patient.age = Txt(<<70>>, TRUE)
    /\ scored[1].score = 4
    /\ scored[1].hasDataQualityIssue

\* A string with exactly one '/' and a number on each side of it.
OneSlashPair(bp) ==
    /\ bp.kind = "string"
    /\ Len(bp.parts) = 2
    /\ bp.parts[1].num # <<>>
    /\ bp.parts[2].num # <<>>

\* C13: the blood pressure is scored only when it is a string with exactly
\* one '/' and a number on each side; any other value (absent, no string,
\* no '/', more than one '/' as in "120/80/90", a side that is no number)
\* has sub-score 0 and sets hasDataQualityIssue.
C13_OnlyOneSlashPairScored ==
    (scored # <<>> /\ ~OneSlashPair(patient.blood_pressure))
        => (scored[1].bpScore = 0 /\ scored[1].hasDataQualityIssue)

(***************************************************************************)
(* C14, C15.  The submission.                                              *)
(***************************************************************************)
NoDuplicates(list) == \A i, j \in 1..Len(list) : i # j => list[i] # list[j]

\* Where x was first inserted into list.
FirstAt(list, x) ==
    CHOOSE i \in 1..Len(list) : list[i] = x /\ \A j \in 1..(i - 1) : list[j] # x

\* out holds the ids of raw, ordered by their first insertion into raw.
InFirstInsertionOrder(out, raw) ==
    /\ {out[i] : i \in 1..Len(out)} = {raw[i] : i \in 1..Len(raw)}
    /\ \A i, j \in 1..Len(out) : i < j => FirstAt(raw, out[i]) < FirstAt(raw, out[j])

\* The run has handed its payload to submitAssessment.
Handed == pc \in {"submit", "done"}

\* C14: each of the three lists of the payload handed to submitAssessment
\* holds every id at most once, in the order in which the ids were first
\* inserted, whatever the pages and the retried pages returned.
C14_PayloadListsDeduplicated ==
    Handed
        => /\ NoDuplicates(payload.high_risk_patients)
           /\ NoDuplicates(payload.fever_patients)
           /\ NoDuplicates(payload.data_quality_issues)
           /\ InFirstInsertionOrder(payload.high_risk_patients, highRiskPatientIds)
           /\ InFirstInsertionOrder(payload.fever_patients, feverPatientIds)
           /\ InFirstInsertionOrder(payload.data_quality_issues, dataQualityIssueIds)

\* Page 2 and the retried page 1 each returned a record with the id "p1"
\* and a fever: the id was collected twice and is handed over once.
C14_Witness ==
    /\ pc = "done"
    /\ failedPages = <<1>>
    /\ allPatients = <<PatientB, PatientA>>
    /\ feverPatientIds = <<"p1", "p1">>
    /\ payload.fever_patients = <<"p1">>
    /\ payload.high_risk_patients = <<"p1">>
    /\ payload.data_quality_issues = <<"p1">>

\* The three lists, the payload built from them, and the records collected.
collected == <<highRiskPatientIds, feverPatientIds, dataQualityIssueIds,
               payload, allPatients>>

\* C15: the submission is posted once, after the main loop has ended and
\* every queued page has been fetched again; whether it succeeds or fails
\* the run is complete after it, nothing is posted again, and the collected
\* lists are what they were.
C15_SubmittedOnceAtTheEnd ==
    /\ [][submitOutcome' # submitOutcome
            => (pc = "submit" /\ submitOutcome = "none" /\ pc' = "done")]_vars
    /\ [](pc = "done" <=> submitOutcome # "none")
    /\ [](Handed => /\ ~hasNext
                    /\ ~isFetching
                    /\ retryIdx = Len(failedPages) + 1
                    /\ \A i \in 1..Len(failedPages) : fetchCount[failedPages[i]] = 2)
    /\ [][pc = "submit"
            => (pc' = "done" /\ submitOutcome' \in {"ok", "failed"}
                /\ collected' = collected)]_vars
    /\ [][pc = "done" => (pc' = "done" /\ collected' = collected)]_vars

\* A finished run whose submission was rejected, after a retried page.
C15_Witness ==
    /\ pc = "done"
    /\ submitOutcome = "failed"
    /\ failedPages = <<1>>
    /\ fetchCount[1] = 2
    /\ payload.fever_patients = <<"p1">>
    /\ payload.data_quality_issues = <<"p2", "p1">>

(***************************************************************************)
(* C16.  The order of the page fetches.                                    *)
(***************************************************************************)
\* fetchPatientsPage is called in this step.
Called == pc # "fetch" /\ pc' = "fetch"

\* No call was made yet.
FirstCall == \A p \in 1..MaxPage : fetchCount[p] = 0

\* While a call is in progress no other call starts.
OneInFlight == [][pc = "fetch" => (callPage' = callPage /\ caller' = caller)]_vars

C17_VariantsDifferOnOverlap ==
    (scored # <<>> /\ patient.blood_pressure \in ReadableBps)
        => LET s == patient.blood_pressure.parts[1].num[1]
               d == patient.blood_pressure.parts[2].num[1]
           IN  /\ scored[1].bpScore = scored[2].bpScore
                    <=> ~(RuleOne(s, d) /\ RuleTwo(s, d))
               /\ (RuleOne(s, d) /\ RuleTwo(s, d))
                    => (scored[1].bpScore = 3 /\ scored[2].bpScore = 2)
               /\ (s >= 140 /\ d \in 80..89)
                    => scored[1].bpScore # scored[2].bpScore

\* "140/80": 3 in assessment.ts, 2 in the JavaScript variant.
C17_Witness ==
    /\ scored # <<>>
    /\ patient.blood_pressure = Bp(<<Num(140), Num(80)>>)
    /\ scored[1].bpScore = 3
    /\ scored[2].bpScore = 2

(***************************************************************************)
(* C18.  What the retry pass leaves alone.                                 *)
(***************************************************************************)
InRetryPass == pc \in {"retry", "retryGot"} \/ (pc = "fetch" /\ caller = "retry")

C19_WarnsWhenShortOfReportedTotal ==
    /\ [](Handed => (warned <=> (/\ reportedTotal # <<>>
                                 /\ Len(allPatients) < reportedTotal[1])))
    /\ [](~Handed => ~warned)
    /\ [][(pc = "submit" /\ warned) => (pc' = "done" /\ collected' = collected)]_vars

(***************************************************************************)
(* C20.  Category membership.                                              *)
(***************************************************************************)
PatientIds == {p.patient_id : p \in SamplePatients}

InList(list, id) == \E i \in 1..Len(list) : list[i] = id

\* The records folded in, in the main loop or in the retry pass, with this id.
FoldedWith(id) == {allPatients[i] : i \in {j \in 1..Len(allPatients) :
                                              allPatients[j].patient_id = id}}

\* C20: an id is in the high-risk list of the payload exactly when a folded
\* record with that id has a score of at least 4, in the fever list exactly
\* when one has isFever, in the data-quality list exactly when one has
\* hasDataQualityIssue; each membership is decided on its own.
C20_MembershipIsUnionOverFolded ==
    Handed
        => \A id \in PatientIds :
              /\ InList(payload.high_risk_patients, id)
                   <=> \E p \in FoldedWith(id) : calculateRiskScore(p).score >= 4
              /\ InList(payload.fever_patients, id)
                   <=> \E p \in FoldedWith(id) : calculateRiskScore(p).isFever
              /\ InList(payload.data_quality_issues, id)
                   <=> \E p \in FoldedWith(id) : calculateRiskScore(p).hasDataQualityIssue

\* Page 2 returned the healthy record, the retried page 1 the two records
\* of "p1": "p1" is in all three lists, "p3" in none.
C20_Witness ==
    /\ pc = "done"
    /\ failedPages = <<1>>
    /\ allPatients = <<PatientD, PatientA, PatientB>>
    /\ payload = [high_risk_patients |-> <<"p1">>, fever_patients |-> <<"p1">>,
                  data_quality_issues |-> <<"p1">>]

(***************************************************************************)
(* C21.  The pending-retry list.                                           *)
(***************************************************************************)
\* The run is in its main loop (a call made by the main loop included).
InMainLoop == pc \in {"start", "main", "mainGot"} \/ (pc = "fetch" /\ caller = "main")

\* C21: in every state failedPages is strictly increasing (so free of
\* duplicates) and each of its pages is below the page counter; a page was
\* passed to fetchPatientsPage at most twice: at most once by the main loop,
\* and once more by the retry pass only if it is in failedPages; a page
\* above the page counter was never passed to it.
C21_PendingPagesIncreasing ==
    /\ \A i, j \in 1..Len(failedPages) : i < j => failedPages[i] < failedPages[j]
    /\ \A i \in 1..Len(failedPages) : failedPages[i] \in 1..(page - 1)
    /\ \A p \in 1..MaxPage :
          /\ fetchCount[p] <= 2
          /\ InMainLoop => fetchCount[p] <= 1
          /\ fetchCount[p] = 2 => InList(failedPages, p)
          /\ p > page => fetchCount[p] = 0

\* Two pages in a row came back empty and are queued, in that order.
C21_Witness ==
    /\ failedPages = <<1, 2>>
    /\ page = 3
    /\ fetchCount = <<1, 1>>
    /\ hasNext

(***************************************************************************)
(* C22.  A delay between any two read requests.                            *)
(***************************************************************************)
\* This step issues a read request (axios.get) to the remote service.
ReadRequest == pc = "fetch" /\ requests' = requests + 1

\* C22: whenever a read request is issued, at least one delay of positive
\* length has elapsed since the previous read request: the last one is the
\* 300 ms pause of the main loop for the first request of a call made by
\* the main loop, the 500 ms pause of the retry pass for the first request
\* of a call made by the retry pass, and the backoff wait of the failed
\* attempt for every later request of a call.
C22_RequestsSeparatedByDelay ==
    [][ReadRequest =>
          /\ slept # <<>>
          /\ \A i \in 1..Len(slept) : slept[i] > 0
          /\ (retries = 0 /\ caller = "main") => slept[Len(slept)] = 300
          /\ (retries = 0 /\ caller = "retry") => slept[Len(slept)] = 500
          /\ retries > 0 => slept = <<backoff(retries - 1)>>]_vars

\* The main loop ended on a folded page and the retry pass is about to
\* issue its first request: the 200 ms and the 500 ms pause lie between
\* the last request of the main loop and this one.
C22_Witness ==
    /\ pc = "fetch"
    /\ caller = "retry"
    /\ requests = 0
    /\ failedPages = <<1>>
    /\ fetchCount = <<2, 1>>
    /\ slept = <<200, 500>>

====
